---- MODULE Spec2Model ----
(***************************************************************************)
(* Model of src/index.js: the EVM auto-transfer bot.                       *)
(*                                                                         *)
(* One monitorAndTransfer invocation per configured network ("monitor"),   *)
(* identified by (network, generation); a restart scheduled by the catch   *)
(* block starts the next generation.  JavaScript runs every synchronous    *)
(* segment between two awaits atomically, so each action below is one such *)
(* segment: it starts when an awaited promise or a timer completes and     *)
(* runs up to the next await.  RPC calls and timers complete in any order  *)
(* (no latency is bounded by the code), and every RPC call may fail.       *)
(***************************************************************************)
EXTENDS Integers, Sequences, FiniteSets, TLC

\* ---------------------------------------------------------------- bounds
MaxHeight == 2      \* the chain of a network grows up to this block height
MaxGen    == 2      \* monitorAndTransfer invocations per network
MaxConc   == 2      \* interval callbacks of one network in flight at once

\* ------------------------------------------------------ program constants
DefaultDecimals == 18
PollMs    == 15000
SettleMs  == 60000
RestartMs == 30000
AddrLen   == 42

NetworkNames == {"Ethereum", "Arbitrum"}
Gens  == 1..MaxGen
Slots == 1..MaxConc
\* flow 0 of a network is the custom-token pass of monitorAndTransfer,
\* flows 1..MaxConc are the in-flight callbacks of the polling interval
Flows == 0..MaxConc
Heights == 0..MaxHeight
NoBlock == -1

ERC20_ABI == {"balanceOf", "decimals", "symbol", "name", "transfer"}

\* ------------------------------------------------------------ environment
Keys == {"missing", "valid", "nonhex", "wronglen"}
Balances == {0, 1000}

\* entries of CUSTOM_TOKENS after split(","), trim and toLowerCase
RawTokenLists ==
  { << >>,
    << [addr |-> "0xaaa", len |-> 42, prefix |-> "0x"],
       [addr |-> "bbb",   len |-> 40, prefix |-> "bb"],
       [addr |-> "0xccc", len |-> 42, prefix |-> "0x"] >> }

\* the Transfer logs to the watched wallet in block h of any chain:
\* an odd block holds one transaction moving two tokens, an even block one
LogsAt(h) ==
  IF h % 2 = 1
    THEN << [transactionHash |-> h, address |-> "0xaaa", blockNumber |-> h],
            [transactionHash |-> h, address |-> "0xccc", blockNumber |-> h] >>
    ELSE << [transactionHash |-> h, address |-> "0xaaa", blockNumber |-> h] >>

RECURSIVE GetLogs(_, _)
GetLogs(fromBlock, toBlock) ==
  IF fromBlock > toBlock THEN << >>
  ELSE LogsAt(fromBlock) \o GetLogs(fromBlock + 1, toBlock)

TxIds == 1..MaxHeight

VARIABLES
  privateKey,        \* process.env.PRIVATE_KEY
  recipient,         \* process.env.RECIPIENT_ADDRESS is set
  configured,        \* networks whose rpcUrl is set
  rawTokens,         \* CUSTOM_TOKENS entries
  chainEnd,          \* [network -> height at which its chain stops growing]
  mainPc,            \* position of main / the process
  height,            \* [network -> chain height]
  mpc,               \* [network -> [gen -> position of monitorAndTransfer]]
  started,           \* [network -> number of invocations started]
  restartTimers,     \* [network -> pending setTimeout(monitorAndTransfer)]
  interval,          \* [network -> gens whose setInterval is installed]
  lastCheckedBlock,  \* [network -> [gen -> lastCheckedBlock]]
  processedTxs,      \* [network -> [gen -> processedTxs]]
  flow,              \* [network -> [flow id -> activation record]]
  sweepCalls,        \* history: transferToken calls per (network, gen, tx)
  fatalLog,          \* history: last console.error of the catch block
  retry,             \* history: checkpoint at the last failed tick
  polled,            \* history: heights inside a log query that succeeded
  firstBlock,        \* history: the height captured at line 131
  passLog,           \* history: tokens the custom pass called transferToken for
  sweptLogs,         \* history: entries the handler called transferToken for
  lookup,            \* outcomes of the three lookups of one getTokenDetails
  details            \* value returned by that getTokenDetails call

vars == << privateKey, recipient, configured, rawTokens, chainEnd, mainPc,
           height, mpc, started, restartTimers, interval, lastCheckedBlock,
           processedTxs, flow, sweepCalls, fatalLog, retry, polled, firstBlock,
           passLog, sweptLogs, lookup, details >>

envVars == << privateKey, recipient, configured, rawTokens, chainEnd >>

histVars == << polled, firstBlock, passLog, sweptLogs >>

\* ---------------------------------------------------------- pure functions

\* lines 34-37: the filter of CUSTOM_TOKENS
WellFormed(t) == t.len = AddrLen /\ t.prefix = "0x"

customTokenAddresses ==
  LET kept == SelectSeq(rawTokens, WellFormed)
  IN  [i \in 1..Len(kept) |-> kept[i].addr]

\* a lookup outcome is [ok |-> BOOLEAN, val |-> value]; .catch(() => d)
OrDefault(outcome, d) == IF outcome.ok THEN outcome.val ELSE d

NoDetails == [symbol |-> "", decimals |-> 0, name |-> ""]

\* mutant: one rejected lookup rejects Promise.all and the outer catch
\* returns the three defaults
getTokenDetailsAllOrNothing(l) ==
  IF l.ctor /\ l.symbol.ok /\ l.decimals.ok /\ l.name.ok
    THEN [symbol |-> l.symbol.val, decimals |-> l.decimals.val,
          name |-> l.name.val]
    ELSE [symbol |-> "UNKNOWN", decimals |-> DefaultDecimals,
          name |-> "Unknown Token"]

\* lines 52-66; l.ctor is whether new Contract(...) returned
getTokenDetails(l) ==
  IF l.ctor
    THEN [symbol   |-> OrDefault(l.symbol, "UNKNOWN"),
          decimals |-> OrDefault(l.decimals, DefaultDecimals),
          name     |-> IF "name" \in ERC20_ABI
                         THEN OrDefault(l.name, "Unknown Token")
                         ELSE "Unknown Token"]
    ELSE [symbol |-> "UNKNOWN", decimals |-> DefaultDecimals,
          name |-> "Unknown Token"]

\* what new Wallet(privateKey, provider) throws (ethers v6): a key that is
\* not a hex string fails in getBytes, a hex string of the wrong length in
\* the SigningKey constructor
WalletError(key) ==
  IF key = "nonhex"
    THEN [code |-> "INVALID_ARGUMENT", message |-> "invalid BytesLike value"]
    ELSE [code |-> "INVALID_ARGUMENT", message |-> "invalid private key"]

NetworkError == [code |-> "NETWORK_ERROR", message |-> "could not detect network"]

\* lines 175-178
IsInvalidKeyError(err) ==
  err.code = "INVALID_ARGUMENT" /\ err.message = "invalid BytesLike value"

\* mutant: the restart is scheduled twice
CatchTwoTimers(err) ==
  IF IsInvalidKeyError(err)
    THEN [pc |-> "terminal", timers |-> 0, log |-> "invalidKey"]
    ELSE [pc |-> "failed",   timers |-> 2, log |-> "fatal"]

\* mutant: no error schedules a restart
CatchNoRestart(err) ==
  IF IsInvalidKeyError(err)
    THEN [pc |-> "terminal", timers |-> 0, log |-> "invalidKey"]
    ELSE [pc |-> "failed",   timers |-> 0, log |-> "fatal"]

\* lines 174-190: the catch block of monitorAndTransfer
Catch(err) ==
  IF IsInvalidKeyError(err)
    THEN [pc |-> "terminal", timers |-> 0, log |-> "invalidKey"]
    ELSE [pc |-> "failed",   timers |-> 1, log |-> "fatal"]

\* lines 29-42: monitorAndTransfer up to its first await
BeginMonitor(key) ==
  IF key = "valid"
    THEN [pc |-> "getAddress", timers |-> 0, log |-> "none"]
    ELSE Catch(WalletError(key))

\* mutant: the zero test never succeeds
IsZeroNever(balance) == FALSE

\* line 73
IsZero(balance) == balance = 0

\* ------------------------------------------------------------------ state

\* what a transferToken call did: the balance it read (NoBlock: none), its
\* return value, whether transfer() was sent and whether line 98 logged
NoSweep == [balance |-> NoBlock, result |-> FALSE, submitted |-> FALSE,
            reported |-> FALSE]

\* an activation: gen is the invocation it belongs to, cur/from the
\* callback's currentBlock and fromBlock, idx the loop position, bal the
\* balance local of transferToken, res the outcome of the call that returned
Idle == [gen |-> 0, pc |-> "idle", cur |-> NoBlock, from |-> NoBlock,
         idx |-> 0, bal |-> 0, res |-> NoSweep]

\* a rejected lookup carries no value: err stands for the rejection
LookupOutcomes(vals, err) ==
  {[ok |-> FALSE, val |-> err]} \cup {[ok |-> TRUE, val |-> v] : v \in vals}

Lookups ==
  [ctor : BOOLEAN,
   symbol : LookupOutcomes({"USDT", "UNKNOWN"}, "error"),
   decimals : LookupOutcomes({6, 18}, 0),
   name : LookupOutcomes({"Tether USD", "Unknown Token"}, "error")]

Sum(f) == f["Ethereum"] + f["Arbitrum"]

\* the environments explored.  A process that never starts a monitor, or
\* whose key fails, does not depend on the chains; one running monitor is
\* explored against a chain of full length, or with custom tokens against
\* a chain of one block; two running monitors are explored against chains
\* that gain at most one block in total
Environment ==
  /\ \A n \in NetworkNames \ configured : chainEnd[n] = 0
  /\ \/ /\ privateKey # "valid" \/ ~recipient \/ configured = {}
        /\ rawTokens = << >>
        /\ \A n \in NetworkNames : chainEnd[n] = 0
     \/ /\ privateKey = "valid" /\ recipient
        /\ Cardinality(configured) = 1
        /\ rawTokens = << >>
        /\ \A n \in configured : chainEnd[n] = MaxHeight
     \/ /\ privateKey = "valid" /\ recipient
        /\ Cardinality(configured) = 1
        /\ rawTokens # << >>
        /\ \A n \in configured : chainEnd[n] = 1
     \/ /\ privateKey = "valid" /\ recipient
        /\ Cardinality(configured) = 2
        /\ rawTokens = << >>
        /\ Sum(chainEnd) <= 1

Init ==
  /\ privateKey \in Keys
  /\ recipient \in BOOLEAN
  /\ configured \in SUBSET NetworkNames
  /\ rawTokens \in RawTokenLists
  /\ chainEnd \in [NetworkNames -> Heights]
  /\ Environment
  /\ mainPc = "init"
  /\ height = [n \in NetworkNames |-> 0]
  /\ mpc = [n \in NetworkNames |-> [g \in Gens |-> "unborn"]]
  /\ started = [n \in NetworkNames |-> 0]
  /\ restartTimers = [n \in NetworkNames |-> 0]
  /\ interval = [n \in NetworkNames |-> {}]
  /\ lastCheckedBlock = [n \in NetworkNames |-> [g \in Gens |-> NoBlock]]
  /\ processedTxs = [n \in NetworkNames |-> [g \in Gens |-> {}]]
  /\ flow = [n \in NetworkNames |-> [f \in Flows |-> Idle]]
  /\ sweepCalls = [n \in NetworkNames |-> [g \in Gens |-> [t \in TxIds |-> 0]]]
  /\ fatalLog = [n \in NetworkNames |-> "none"]
  /\ retry = [n \in NetworkNames |-> NoBlock]
  /\ polled = [n \in NetworkNames |-> [g \in Gens |-> {}]]
  /\ firstBlock = [n \in NetworkNames |-> [g \in Gens |-> NoBlock]]
  /\ passLog = [n \in NetworkNames |-> [g \in Gens |-> << >>]]
  /\ sweptLogs = [n \in NetworkNames |-> [g \in Gens |-> {}]]
  /\ lookup = [ctor |-> TRUE, symbol |-> [ok |-> TRUE, val |-> "USDT"],
               decimals |-> [ok |-> TRUE, val |-> 6],
               name |-> [ok |-> TRUE, val |-> "Tether USD"]]
  /\ details = NoDetails

\* timers and pending I/O that keep the Node.js event loop alive
Alive ==
  \E n \in NetworkNames :
    \/ restartTimers[n] > 0
    \/ interval[n] # {}
    \/ \E g \in Gens : mpc[n][g] \in {"getAddress", "getBlock"}
    \/ \E f \in Flows : flow[n][f].pc # "idle"

Exited == mainPc \in {"exit1", "exit0"}

\* ------------------------------------------------------------------- main

\* lines 197-204
MainMissingEnv ==
  /\ mainPc = "init"
  /\ privateKey = "missing" \/ ~recipient
  /\ mainPc' = "exit1"
  /\ UNCHANGED << envVars, histVars, height, mpc, started, restartTimers, interval,
                  lastCheckedBlock, processedTxs, flow, sweepCalls, fatalLog, retry, lookup, details >>

\* lines 206-220
MainNoNetwork ==
  /\ mainPc = "init"
  /\ privateKey # "missing" /\ recipient
  /\ configured = {}
  /\ mainPc' = "exit1"
  /\ UNCHANGED << envVars, histVars, height, mpc, started, restartTimers, interval,
                  lastCheckedBlock, processedTxs, flow, sweepCalls, fatalLog, retry, lookup, details >>

\* lines 222-235: every monitorAndTransfer call runs to its first await
\* (or through its catch block) inside networkConfigs.map
MainStart ==
  /\ mainPc = "init"
  /\ privateKey # "missing" /\ recipient
  /\ configured # {}
  /\ LET b == BeginMonitor(privateKey) IN
       /\ mpc' = [n \in NetworkNames |->
                    IF n \in configured THEN [mpc[n] EXCEPT ![1] = b.pc]
                                        ELSE mpc[n]]
       /\ started' = [n \in NetworkNames |-> IF n \in configured THEN 1 ELSE 0]
       /\ restartTimers' = [n \in NetworkNames |->
                              IF n \in configured THEN b.timers ELSE 0]
       /\ fatalLog' = [n \in NetworkNames |->
                         IF n \in configured THEN b.log ELSE "none"]
  /\ mainPc' = "awaiting"
  /\ UNCHANGED << envVars, histVars, height, interval, lastCheckedBlock, processedTxs,
                  flow, sweepCalls, retry, lookup, details >>

\* line 235: Promise.all resolves once every first invocation has returned
MainDone ==
  /\ mainPc = "awaiting"
  /\ \A n \in configured : mpc[n][1] \in {"returned", "terminal", "failed"}
  /\ mainPc' = "done"
  /\ UNCHANGED << envVars, histVars, height, mpc, started, restartTimers, interval,
                  lastCheckedBlock, processedTxs, flow, sweepCalls, fatalLog, retry, lookup, details >>

\* Node.js leaves when main has returned and no timer or I/O is pending
ProcessExit ==
  /\ mainPc = "done"
  /\ ~Alive
  /\ mainPc' = "exit0"
  /\ UNCHANGED << envVars, histVars, height, mpc, started, restartTimers, interval,
                  lastCheckedBlock, processedTxs, flow, sweepCalls, fatalLog, retry, lookup, details >>

\* the chain of network n gains a block
NewBlock(n) ==
  /\ n \in configured
  /\ ~Exited
  /\ height[n] < chainEnd[n]
  /\ height' = [height EXCEPT ![n] = @ + 1]
  /\ UNCHANGED << envVars, histVars, mainPc, mpc, started, restartTimers, interval,
                  lastCheckedBlock, processedTxs, flow, sweepCalls, fatalLog, retry, lookup, details >>

\* ------------------------------------------------- monitorAndTransfer

\* the setTimeout of line 188 fires: the next invocation runs to its first
\* await
RestartFire(n) ==
  /\ ~Exited
  /\ restartTimers[n] > 0
  /\ started[n] < MaxGen
  /\ LET g == started[n] + 1
         b == BeginMonitor(privateKey) IN
       /\ mpc' = [mpc EXCEPT ![n][g] = b.pc]
       /\ restartTimers' = [restartTimers EXCEPT ![n] = @ - 1 + b.timers]
       /\ fatalLog' = [fatalLog EXCEPT ![n] = b.log]
  /\ started' = [started EXCEPT ![n] = @ + 1]
  /\ UNCHANGED << envVars, histVars, mainPc, height, interval, lastCheckedBlock,
                  processedTxs, flow, sweepCalls, retry, lookup,
                  details >>

\* line 42 resumes; lines 44-131: the closures and processedTxs are created
\* and provider.getBlockNumber() is called
GetAddressReturn(n, g) ==
  /\ mpc[n][g] = "getAddress"
  /\ mpc' = [mpc EXCEPT ![n][g] = "getBlock"]
  /\ processedTxs' = [processedTxs EXCEPT ![n][g] = {}]
  /\ UNCHANGED << envVars, histVars, mainPc, height, started, restartTimers, interval,
                  lastCheckedBlock, flow, sweepCalls, fatalLog,
                  retry, lookup, details >>

\* lines 131-173: the height is captured, the interval installed, and the
\* custom-token pass runs to its first await (or the function returns)
InitialBlockOk(n, g) ==
  /\ mpc[n][g] = "getBlock"
  /\ lastCheckedBlock' = [lastCheckedBlock EXCEPT ![n][g] = height[n]]
  /\ interval' = [interval EXCEPT ![n] = @ \cup {g}]
  /\ IF Len(customTokenAddresses) > 0
       THEN /\ mpc' = [mpc EXCEPT ![n][g] = "custom"]
            /\ flow' = [flow EXCEPT ![n][0] =
                          [Idle EXCEPT !.gen = g, !.pc = "details", !.idx = 1]]
       ELSE /\ mpc' = [mpc EXCEPT ![n][g] = "returned"]
            /\ UNCHANGED flow
  /\ firstBlock' = [firstBlock EXCEPT ![n][g] = height[n]]
  /\ UNCHANGED << envVars, polled, passLog, sweptLogs, mainPc, height, started,
                  restartTimers, processedTxs, sweepCalls, fatalLog, retry,
                  lookup, details >>

\* mutant: setInterval is called before the await of line 131, so the
\* interval is installed when that call rejects
InitialBlockFailTimerInstalled(n, g) ==
  /\ mpc[n][g] = "getBlock"
  /\ interval' = [interval EXCEPT ![n] = @ \cup {g}]
  /\ LET c == Catch(NetworkError) IN
       /\ mpc' = [mpc EXCEPT ![n][g] = c.pc]
       /\ restartTimers' = [restartTimers EXCEPT ![n] = @ + c.timers]
       /\ fatalLog' = [fatalLog EXCEPT ![n] = c.log]
  /\ UNCHANGED << envVars, histVars, mainPc, height, started,
                  lastCheckedBlock, processedTxs, flow, sweepCalls, retry, lookup, details >>

\* line 131 rejects: the catch block of lines 174-190
InitialBlockFail(n, g) ==
  /\ mpc[n][g] = "getBlock"
  /\ LET c == Catch(NetworkError) IN
       /\ mpc' = [mpc EXCEPT ![n][g] = c.pc]
       /\ restartTimers' = [restartTimers EXCEPT ![n] = @ + c.timers]
       /\ fatalLog' = [fatalLog EXCEPT ![n] = c.log]
  /\ UNCHANGED << envVars, histVars, mainPc, height, started, interval,
                  lastCheckedBlock, processedTxs, flow, sweepCalls, retry, lookup, details >>

\* mutant: a failed sweep ends the custom pass
CustomResumeStopsOnFailure(n) ==
  LET fl == flow[n][0] IN
  /\ fl.pc = "ret"
  /\ IF fl.idx < Len(customTokenAddresses) /\ ~fl.res.reported
       THEN /\ flow' = [flow EXCEPT ![n][0] =
                          [fl EXCEPT !.pc = "details", !.idx = fl.idx + 1,
                                     !.res = NoSweep]]
            /\ UNCHANGED mpc
       ELSE /\ flow' = [flow EXCEPT ![n][0] = Idle]
            /\ mpc' = [mpc EXCEPT ![n][fl.gen] = "returned"]
  /\ UNCHANGED << envVars, histVars, mainPc, height, started, restartTimers, interval,
                  lastCheckedBlock, processedTxs, sweepCalls, fatalLog, retry, lookup, details >>

\* lines 169-173: the await of transferToken resumes in the custom pass
CustomResume(n) ==
  LET fl == flow[n][0] IN
  /\ fl.pc = "ret"
  /\ IF fl.idx < Len(customTokenAddresses)
       THEN /\ flow' = [flow EXCEPT ![n][0] =
                          [fl EXCEPT !.pc = "details", !.idx = fl.idx + 1,
                                     !.res = NoSweep]]
            /\ UNCHANGED mpc
       ELSE /\ flow' = [flow EXCEPT ![n][0] = Idle]
            /\ mpc' = [mpc EXCEPT ![n][fl.gen] = "returned"]
  /\ UNCHANGED << envVars, histVars, mainPc, height, started, restartTimers, interval,
                  lastCheckedBlock, processedTxs, sweepCalls, fatalLog, retry, lookup, details >>

\* ------------------------------------------------------ polling interval

FreeSlots(n) == {s \in Slots : flow[n][s].pc = "idle"}

\* the interval of line 138 fires: the callback calls getBlockNumber
TickFire(n, g) ==
  /\ g \in interval[n]
  /\ FreeSlots(n) # {}
  /\ LET s == CHOOSE x \in FreeSlots(n) : \A y \in FreeSlots(n) : x <= y IN
       flow' = [flow EXCEPT ![n][s] =
                  [Idle EXCEPT !.gen = g, !.pc = "getBlock"]]
  /\ UNCHANGED << envVars, histVars, mainPc, height, mpc, started, restartTimers,
                  interval, lastCheckedBlock, processedTxs, sweepCalls,
                  fatalLog, retry, lookup, details >>

\* mutant: the query starts at the height just read, not after the
\* checkpoint
TickBlockOkFromCurrent(n, s) ==
  LET fl == flow[n][s] IN
  /\ fl.pc = "getBlock"
  /\ IF height[n] > lastCheckedBlock[n][fl.gen]
       THEN flow' = [flow EXCEPT ![n][s] =
                       [fl EXCEPT !.pc = "getLogs", !.cur = height[n],
                                  !.from = height[n]]]
       ELSE flow' = [flow EXCEPT ![n][s] = Idle]
  /\ UNCHANGED << envVars, histVars, mainPc, height, mpc, started, restartTimers,
                  interval, lastCheckedBlock, processedTxs, sweepCalls,
                  fatalLog, retry, lookup, details >>

\* lines 140-150: getBlockNumber resolved
TickBlockOk(n, s) ==
  LET fl == flow[n][s] IN
  /\ fl.pc = "getBlock"
  /\ IF height[n] > lastCheckedBlock[n][fl.gen]
       THEN flow' = [flow EXCEPT ![n][s] =
                       [fl EXCEPT !.pc = "getLogs", !.cur = height[n],
                                  !.from = lastCheckedBlock[n][fl.gen] + 1]]
       ELSE flow' = [flow EXCEPT ![n][s] = Idle]
  /\ UNCHANGED << envVars, histVars, mainPc, height, mpc, started, restartTimers,
                  interval, lastCheckedBlock, processedTxs, sweepCalls,
                  fatalLog, retry, lookup, details >>

\* lines 157-159 after a rejected getBlockNumber (line 140)
TickBlockFail(n, s) ==
  LET fl == flow[n][s] IN
  /\ fl.pc = "getBlock"
  /\ flow' = [flow EXCEPT ![n][s] = Idle]
  /\ retry' = [retry EXCEPT ![n] = lastCheckedBlock[n][fl.gen]]
  /\ UNCHANGED << envVars, histVars, mainPc, height, mpc, started, restartTimers,
                  interval, lastCheckedBlock, processedTxs, sweepCalls,
                  fatalLog, lookup, details >>

\* lines 157-159 after a rejected getLogs (line 146)
TickLogsFail(n, s) ==
  LET fl == flow[n][s] IN
  /\ fl.pc = "getLogs"
  /\ flow' = [flow EXCEPT ![n][s] = Idle]
  /\ retry' = [retry EXCEPT ![n] = lastCheckedBlock[n][fl.gen]]
  /\ UNCHANGED << envVars, histVars, mainPc, height, mpc, started, restartTimers,
                  interval, lastCheckedBlock, processedTxs, sweepCalls,
                  fatalLog, lookup, details >>

\* mutant: processedTxs is one module-level Set shared by every monitor
AdvanceSharedLedger(n, s, fl, i) ==
  LET logs == GetLogs(fl.from, fl.cur) IN
  IF i > Len(logs)
    THEN /\ lastCheckedBlock' = [lastCheckedBlock EXCEPT ![n][fl.gen] = fl.cur]
         /\ flow' = [flow EXCEPT ![n][s] = Idle]
         /\ UNCHANGED processedTxs
    ELSE IF logs[i].transactionHash \in processedTxs[n][fl.gen]
      THEN /\ flow' = [flow EXCEPT ![n][s] =
                         [fl EXCEPT !.pc = "ret", !.idx = i, !.res = NoSweep]]
           /\ UNCHANGED << lastCheckedBlock, processedTxs >>
      ELSE /\ processedTxs' =
                [m \in NetworkNames |-> [g \in Gens |->
                   processedTxs[m][g] \cup {logs[i].transactionHash}]]
           /\ flow' = [flow EXCEPT ![n][s] =
                         [fl EXCEPT !.pc = "details", !.idx = i, !.res = NoSweep]]
           /\ UNCHANGED lastCheckedBlock

\* mutant: line 113 is missing, the transaction is never marked
AdvanceNoMark(n, s, fl, i) ==
  LET logs == GetLogs(fl.from, fl.cur) IN
  IF i > Len(logs)
    THEN /\ lastCheckedBlock' = [lastCheckedBlock EXCEPT ![n][fl.gen] = fl.cur]
         /\ flow' = [flow EXCEPT ![n][s] = Idle]
         /\ UNCHANGED processedTxs
    ELSE IF logs[i].transactionHash \in processedTxs[n][fl.gen]
      THEN /\ flow' = [flow EXCEPT ![n][s] =
                         [fl EXCEPT !.pc = "ret", !.idx = i, !.res = NoSweep]]
           /\ UNCHANGED << lastCheckedBlock, processedTxs >>
      ELSE /\ flow' = [flow EXCEPT ![n][s] =
                         [fl EXCEPT !.pc = "details", !.idx = i, !.res = NoSweep]]
           /\ UNCHANGED << lastCheckedBlock, processedTxs >>

\* lines 152-155 and 110-116: the for loop runs from entry i to its next
\* await: past the last entry it writes the checkpoint; an entry whose
\* transaction is in processedTxs returns at once (line 112) and the loop
\* awaits that return; any other entry is marked and getTokenDetails called
Advance(n, s, fl, i) ==
  LET logs == GetLogs(fl.from, fl.cur) IN
  IF i > Len(logs)
    THEN /\ lastCheckedBlock' = [lastCheckedBlock EXCEPT ![n][fl.gen] = fl.cur]
         /\ flow' = [flow EXCEPT ![n][s] = Idle]
         /\ UNCHANGED processedTxs
    ELSE IF logs[i].transactionHash \in processedTxs[n][fl.gen]
      THEN /\ flow' = [flow EXCEPT ![n][s] =
                         [fl EXCEPT !.pc = "ret", !.idx = i, !.res = NoSweep]]
           /\ UNCHANGED << lastCheckedBlock, processedTxs >>
      ELSE /\ processedTxs' = [processedTxs EXCEPT ![n][fl.gen] =
                                 @ \cup {logs[i].transactionHash}]
           /\ flow' = [flow EXCEPT ![n][s] =
                         [fl EXCEPT !.pc = "details", !.idx = i, !.res = NoSweep]]
           /\ UNCHANGED lastCheckedBlock

\* line 146 resolved with the logs of [fromBlock, toBlock]
TickLogsOk(n, s) ==
  LET fl == flow[n][s] IN
  /\ fl.pc = "getLogs"
  /\ Advance(n, s, fl, 1)
  /\ retry' = [retry EXCEPT ![n] = NoBlock]
  /\ polled' = [polled EXCEPT ![n][fl.gen] = @ \cup (fl.from .. fl.cur)]
  /\ UNCHANGED << envVars, firstBlock, passLog, sweptLogs, mainPc, height, mpc,
                  started, restartTimers, interval, sweepCalls, fatalLog,
                  lookup, details >>

\* line 153 resumes after handleIncomingTransfer returned
TickResume(n, s) ==
  LET fl == flow[n][s] IN
  /\ fl.pc = "ret"
  /\ Advance(n, s, fl, fl.idx + 1)
  /\ UNCHANGED << envVars, histVars, mainPc, height, mpc, started, restartTimers,
                  interval, sweepCalls, fatalLog, retry, lookup,
                  details >>

\* ------------------------------------- handleIncomingTransfer, transferToken

\* the log entry a polling callback is handling
Entry(fl) == GetLogs(fl.from, fl.cur)[fl.idx]

\* the token a flow resolves or sweeps: the entry's contract (line 115) or
\* the custom token of the pass (line 169)
TokenOf(f, fl) ==
  IF f = 0 THEN customTokenAddresses[fl.idx] ELSE Entry(fl).address

Bump(c) == IF c < 2 THEN c + 1 ELSE 2

\* mutant: line 127 is missing, the handler sweeps without a settling delay
DetailsReturnNoDelay(n, f) ==
  LET fl == flow[n][f] IN
  /\ fl.pc = "details"
  /\ flow' = [flow EXCEPT ![n][f] =
                [fl EXCEPT !.pc = "balance"]]
  /\ passLog' = IF f = 0
                  THEN [passLog EXCEPT ![n][fl.gen] = Append(@, TokenOf(f, fl))]
                  ELSE passLog
  /\ UNCHANGED << envVars, polled, firstBlock, sweptLogs, mainPc, height, mpc, started, restartTimers,
                  interval, lastCheckedBlock, processedTxs, sweepCalls,
                  fatalLog, retry, lookup, details >>

\* line 116 or line 170 resumes: getTokenDetails never rejects.  The handler
\* starts the settling timer (line 127); the custom pass calls transferToken
\* at once (line 171), which runs to its balanceOf call (line 71)
DetailsReturn(n, f) ==
  LET fl == flow[n][f] IN
  /\ fl.pc = "details"
  /\ flow' = [flow EXCEPT ![n][f] =
                [fl EXCEPT !.pc = IF f = 0 THEN "balance" ELSE "delay"]]
  /\ passLog' = IF f = 0
                  THEN [passLog EXCEPT ![n][fl.gen] = Append(@, TokenOf(f, fl))]
                  ELSE passLog
  /\ UNCHANGED << envVars, polled, firstBlock, sweptLogs, mainPc, height, mpc, started, restartTimers,
                  interval, lastCheckedBlock, processedTxs, sweepCalls,
                  fatalLog, retry, lookup, details >>

\* the settling timer fires (line 127): transferToken is called (line 128)
\* and runs to its balanceOf call
DelayFire(n, s) ==
  LET fl == flow[n][s] IN
  /\ fl.pc = "delay"
  /\ flow' = [flow EXCEPT ![n][s] = [fl EXCEPT !.pc = "balance"]]
  /\ sweepCalls' = [sweepCalls EXCEPT
                      ![n][fl.gen][Entry(fl).transactionHash] = Bump(@)]
  /\ sweptLogs' = [sweptLogs EXCEPT ![n][fl.gen] = @ \cup {Entry(fl)}]
  /\ UNCHANGED << envVars, polled, firstBlock, passLog, mainPc, height, mpc, started, restartTimers,
                  interval, lastCheckedBlock, processedTxs, fatalLog, retry, lookup, details >>

\* mutant: the catch of lines 97-104 is missing; a rejection reaches the
\* caller, whose own catch (line 157, line 174) ends it
ReturnPropagates(n, f, fl, balance, result, submitted, reported) ==
  IF reported
    THEN flow' = [flow EXCEPT ![n][f] = Idle]
    ELSE flow' = [flow EXCEPT ![n][f] =
                    [fl EXCEPT !.pc = "ret", !.bal = 0,
                               !.res = [balance |-> balance, result |-> result,
                                        submitted |-> submitted,
                                        reported |-> reported]]]

\* transferToken returns (lines 73, 96, 103): its caller's await is resolved
Return(n, f, fl, balance, result, submitted, reported) ==
  flow' = [flow EXCEPT ![n][f] =
             [fl EXCEPT !.pc = "ret", !.bal = 0,
                        !.res = [balance |-> balance, result |-> result,
                                 submitted |-> submitted,
                                 reported |-> reported]]]

\* lines 71-86: balanceOf resolved
BalanceOk(n, f) ==
  LET fl == flow[n][f] IN
  /\ fl.pc = "balance"
  /\ \E b \in Balances :
       IF IsZero(b)
         THEN Return(n, f, fl, b, FALSE, FALSE, FALSE)
         ELSE flow' = [flow EXCEPT ![n][f] =
                         [fl EXCEPT !.pc = "submit", !.bal = b]]
  /\ UNCHANGED << envVars, histVars, mainPc, height, mpc, started, restartTimers,
                  interval, lastCheckedBlock, processedTxs, sweepCalls,
                  fatalLog, retry, lookup, details >>

\* mutant: transferToken has no catch; a rejected balanceOf in the custom
\* pass reaches the catch of line 174, in a callback the catch of line 157
BalanceFailThrows(n, f) ==
  LET fl == flow[n][f] IN
  /\ fl.pc = "balance"
  /\ flow' = [flow EXCEPT ![n][f] = Idle]
  /\ IF f = 0
       THEN LET c == Catch(NetworkError) IN
            /\ mpc' = [mpc EXCEPT ![n][fl.gen] = c.pc]
            /\ restartTimers' = [restartTimers EXCEPT ![n] = @ + c.timers]
            /\ fatalLog' = [fatalLog EXCEPT ![n] = c.log]
       ELSE UNCHANGED << mpc, restartTimers, fatalLog >>
  /\ UNCHANGED << envVars, histVars, mainPc, height, started,
                  interval, lastCheckedBlock, processedTxs, sweepCalls,
                  retry, lookup, details >>

\* lines 97-104 after a rejected balanceOf
BalanceFail(n, f) ==
  LET fl == flow[n][f] IN
  /\ fl.pc = "balance"
  /\ Return(n, f, fl, NoBlock, FALSE, FALSE, TRUE)
  /\ UNCHANGED << envVars, histVars, mainPc, height, mpc, started, restartTimers,
                  interval, lastCheckedBlock, processedTxs, sweepCalls,
                  fatalLog, retry, lookup, details >>

\* lines 86-87: transfer(recipient, balance) resolved with the transaction
SubmitOk(n, f) ==
  LET fl == flow[n][f] IN
  /\ fl.pc = "submit"
  /\ flow' = [flow EXCEPT ![n][f] = [fl EXCEPT !.pc = "confirm"]]
  /\ UNCHANGED << envVars, histVars, mainPc, height, mpc, started, restartTimers,
                  interval, lastCheckedBlock, processedTxs, sweepCalls,
                  fatalLog, retry, lookup, details >>

\* lines 97-104 after a rejected transfer
SubmitFail(n, f) ==
  LET fl == flow[n][f] IN
  /\ fl.pc = "submit"
  /\ Return(n, f, fl, fl.bal, FALSE, FALSE, TRUE)
  /\ UNCHANGED << envVars, histVars, mainPc, height, mpc, started, restartTimers,
                  interval, lastCheckedBlock, processedTxs, sweepCalls,
                  fatalLog, retry, lookup, details >>

\* lines 87-96: tx.wait() resolved
ConfirmOk(n, f) ==
  LET fl == flow[n][f] IN
  /\ fl.pc = "confirm"
  /\ Return(n, f, fl, fl.bal, TRUE, TRUE, FALSE)
  /\ UNCHANGED << envVars, histVars, mainPc, height, mpc, started, restartTimers,
                  interval, lastCheckedBlock, processedTxs, sweepCalls,
                  fatalLog, retry, lookup, details >>

\* lines 97-104 after a rejected tx.wait()
ConfirmFail(n, f) ==
  LET fl == flow[n][f] IN
  /\ fl.pc = "confirm"
  /\ Return(n, f, fl, fl.bal, FALSE, TRUE, TRUE)
  /\ UNCHANGED << envVars, histVars, mainPc, height, mpc, started, restartTimers,
                  interval, lastCheckedBlock, processedTxs, sweepCalls,
                  fatalLog, retry, lookup, details >>

\* ---------------------------------------------------------- specification

Next ==
  \/ MainMissingEnv
  \/ MainNoNetwork
  \/ MainStart
  \/ MainDone
  \/ ProcessExit
  \/ \E n \in NetworkNames : NewBlock(n)
  \/ \E n \in NetworkNames : RestartFire(n)
  \/ \E n \in NetworkNames, g \in Gens : GetAddressReturn(n, g)
  \/ \E n \in NetworkNames, g \in Gens : InitialBlockOk(n, g)
  \/ \E n \in NetworkNames, g \in Gens : InitialBlockFail(n, g)
  \/ \E n \in NetworkNames : CustomResume(n)
  \/ \E n \in NetworkNames, g \in Gens : TickFire(n, g)
  \/ \E n \in NetworkNames, s \in Slots : TickBlockOk(n, s)
  \/ \E n \in NetworkNames, s \in Slots : TickBlockFail(n, s)
  \/ \E n \in NetworkNames, s \in Slots : TickLogsOk(n, s)
  \/ \E n \in NetworkNames, s \in Slots : TickLogsFail(n, s)
  \/ \E n \in NetworkNames, s \in Slots : TickResume(n, s)
  \/ \E n \in NetworkNames, f \in Flows : DetailsReturn(n, f)
  \/ \E n \in NetworkNames, s \in Slots : DelayFire(n, s)
  \/ \E n \in NetworkNames, f \in Flows : BalanceOk(n, f)
  \/ \E n \in NetworkNames, f \in Flows : BalanceFail(n, f)
  \/ \E n \in NetworkNames, f \in Flows : SubmitOk(n, f)
  \/ \E n \in NetworkNames, f \in Flows : SubmitFail(n, f)
  \/ \E n \in NetworkNames, f \in Flows : ConfirmOk(n, f)
  \/ \E n \in NetworkNames, f \in Flows : ConfirmFail(n, f)

Spec == Init /\ [][Next]_vars

\* ------------------------------------------- getTokenDetails on its own

InitDetails ==
  /\ privateKey = "valid"
  /\ recipient = TRUE
  /\ configured = {"Ethereum"}
  /\ rawTokens = << >>
  /\ chainEnd = [n \in NetworkNames |-> 0]
  /\ mainPc = "init"
  /\ height = [n \in NetworkNames |-> 0]
  /\ mpc = [n \in NetworkNames |-> [g \in Gens |-> "unborn"]]
  /\ started = [n \in NetworkNames |-> 0]
  /\ restartTimers = [n \in NetworkNames |-> 0]
  /\ interval = [n \in NetworkNames |-> {}]
  /\ lastCheckedBlock = [n \in NetworkNames |-> [g \in Gens |-> NoBlock]]
  /\ processedTxs = [n \in NetworkNames |-> [g \in Gens |-> {}]]
  /\ flow = [n \in NetworkNames |-> [f \in Flows |-> Idle]]
  /\ sweepCalls = [n \in NetworkNames |-> [g \in Gens |-> [t \in TxIds |-> 0]]]
  /\ fatalLog = [n \in NetworkNames |-> "none"]
  /\ retry = [n \in NetworkNames |-> NoBlock]
  /\ polled = [n \in NetworkNames |-> [g \in Gens |-> {}]]
  /\ firstBlock = [n \in NetworkNames |-> [g \in Gens |-> NoBlock]]
  /\ passLog = [n \in NetworkNames |-> [g \in Gens |-> << >>]]
  /\ sweptLogs = [n \in NetworkNames |-> [g \in Gens |-> {}]]
  /\ lookup \in Lookups
  /\ details = NoDetails

\* a getTokenDetails call whose lookups end as `lookup` says returns
ResolveDetails ==
  /\ details = NoDetails
  /\ details' = getTokenDetails(lookup)
  /\ UNCHANGED << envVars, histVars, mainPc, height, mpc, started, restartTimers,
                  interval, lastCheckedBlock, processedTxs, flow, sweepCalls,
                  fatalLog, retry, lookup >>

\* the next call meets other lookup outcomes
NextLookup ==
  /\ details # NoDetails
  /\ lookup' \in Lookups
  /\ details' = NoDetails
  /\ UNCHANGED << envVars, histVars, mainPc, height, mpc, started, restartTimers,
                  interval, lastCheckedBlock, processedTxs, flow, sweepCalls,
                  fatalLog, retry >>

NextDetails == ResolveDetails \/ NextLookup

SpecDetails == InitDetails /\ [][NextDetails]_vars

\* ------------------------------------------------------------- properties

Handling == {"details", "delay", "balance", "submit", "confirm"}
Sweeping == {"balance", "submit", "confirm"}

Batch(fl) == GetLogs(fl.from, fl.cur)

\* C1: within one monitor lifetime transferToken is called at most once on
\* behalf of a transaction id, whatever ticks overlap or re-deliver its log:
\* an entry being handled is already in processedTxs (check and mark are
\* one synchronous segment) and no two callbacks handle the same id at once
C1_SweptAtMostOnce ==
  /\ \A n \in NetworkNames, g \in Gens, t \in TxIds : sweepCalls[n][g][t] <= 1
  /\ \A n \in NetworkNames, s \in Slots :
       flow[n][s].pc \in Handling
         => Entry(flow[n][s]).transactionHash \in processedTxs[n][flow[n][s].gen]
  /\ \A n \in NetworkNames, s1 \in Slots, s2 \in Slots :
       ( /\ s1 # s2
         /\ flow[n][s1].pc \in Handling /\ flow[n][s2].pc \in Handling
         /\ flow[n][s1].gen = flow[n][s2].gen )
         => Entry(flow[n][s1]).transactionHash
              # Entry(flow[n][s2]).transactionHash

\* a callback skipped the second entry of a batch because it carries the
\* transaction id of the first, whose sweep was started once
C1_Witness ==
  \E n \in NetworkNames, s \in Slots :
    LET fl == flow[n][s] IN
      /\ fl.pc = "ret" /\ fl.idx = 2 /\ fl.res = NoSweep
      /\ Batch(fl)[1].transactionHash = Batch(fl)[2].transactionHash
      /\ sweepCalls[n][fl.gen][Batch(fl)[2].transactionHash] = 1

\* C2: lastCheckedBlock of a monitor never decreases: every assignment
\* writes a value at least as large as the one it replaces
C2_CheckpointMonotonic ==
  [][\A n \in NetworkNames, g \in Gens :
       lastCheckedBlock'[n][g] >= lastCheckedBlock[n][g]]_vars

\* a polling callback ends its loop and writes the checkpoint in this step
WritesCheckpoint(n, s) ==
  /\ TickLogsOk(n, s) \/ TickResume(n, s)
  /\ flow'[n][s].pc = "idle"

\* C3: when a callback writes its currentBlock to lastCheckedBlock, no entry
\* of its batch is still in its settling delay or inside transferToken
C3_AdvanceAfterHandling ==
  [][\A n \in NetworkNames, s \in Slots :
       WritesCheckpoint(n, s) =>
         \A o \in Slots :
           ( /\ flow[n][o].pc \in Handling
             /\ flow[n][o].gen = flow[n][s].gen )
             => \A i \in 1..Len(Batch(flow[n][s])) :
                  Batch(flow[n][s])[i] # Entry(flow[n][o])]_vars

\* a polling callback ends in the catch of lines 157-159 in this step
TickFails(n, s) == TickBlockFail(n, s) \/ TickLogsFail(n, s)

\* C4: a tick whose getBlockNumber or getLogs fails changes neither
\* lastCheckedBlock nor processedTxs, starts no handler and no restart, and
\* the next log query issued before another query has succeeded starts at
\* the checkpoint that failed tick saw, plus one
C4_FailedTickRetried ==
  [][\A n \in NetworkNames, s \in Slots :
       /\ TickFails(n, s) =>
            /\ lastCheckedBlock' = lastCheckedBlock
            /\ processedTxs' = processedTxs
            /\ restartTimers' = restartTimers /\ fatalLog' = fatalLog
            /\ \A o \in Flows : flow'[n][o].pc \in Handling
                                  => flow[n][o].pc \in Handling
       /\ ( /\ flow[n][s].pc = "getBlock" /\ flow'[n][s].pc = "getLogs"
            /\ retry[n] # NoBlock )
            => flow'[n][s].from = retry[n] + 1]_vars

\* C5: a transferToken call that read a zero balance returned false without
\* sending a transfer and without logging a failure, and no transfer of a
\* zero balance is ever in flight
C5_ZeroBalanceNoOp ==
  \A n \in NetworkNames, f \in Flows :
    /\ ( flow[n][f].pc = "ret" /\ flow[n][f].res.balance = 0 )
         => /\ flow[n][f].res.result = FALSE
            /\ ~flow[n][f].res.submitted
            /\ ~flow[n][f].res.reported
    /\ flow[n][f].pc \in {"submit", "confirm"} => flow[n][f].bal > 0

C5_Witness ==
  \E n \in NetworkNames, f \in Flows :
    flow[n][f].pc = "ret" /\ flow[n][f].res.balance = 0

\* C6: with a malformed signing credential every started monitor reports
\* the invalid-key error, ends terminally, and leaves no restart timer and
\* no polling interval behind
C6_MalformedKeyTerminal ==
  ( privateKey \in {"nonhex", "wronglen"} /\ mainPc \in {"awaiting", "done", "exit0"} )
    => \A n \in configured :
         /\ restartTimers[n] = 0
         /\ interval[n] = {}
         /\ fatalLog[n] = "invalidKey"
         /\ \A g \in Gens : mpc[n][g] \in {"unborn", "terminal"}

FailedGens(n) == {g \in Gens : mpc[n][g] = "failed"}

\* C7: every invocation that fails without the invalid-key error schedules
\* exactly one restart, so the pending timers are the failed invocations
\* minus the restarts already run; an invocation that has not captured the
\* height holds an empty processedTxs, no checkpoint and no interval, and
\* the height it captures is the chain's at that moment
C7_RestartFresh ==
  /\ [](\A n \in NetworkNames :
         /\ started[n] >= 1 =>
              restartTimers[n] + (started[n] - 1) = Cardinality(FailedGens(n))
         /\ \A g \in Gens :
              mpc[n][g] \in {"unborn", "getAddress", "getBlock", "failed", "terminal"}
                => /\ processedTxs[n][g] = {}
                   /\ lastCheckedBlock[n][g] = NoBlock
                   /\ g \notin interval[n])
  /\ [][\A n \in NetworkNames, g \in Gens :
         ( mpc[n][g] = "getBlock" /\ mpc'[n][g] \in {"custom", "returned"} )
           => /\ lastCheckedBlock'[n][g] = height[n]
              /\ processedTxs'[n][g] = {}]_vars

\* the second invocation of a network monitors from a height captured after
\* the first one failed on its initial getBlockNumber
C7_Witness ==
  \E n \in NetworkNames :
    /\ privateKey = "valid"
    /\ mpc[n][1] = "failed"
    /\ mpc[n][2] = "returned"
    /\ restartTimers[n] = 0
    /\ lastCheckedBlock[n][2] >= 1
    /\ processedTxs[n][2] = {}

NetAlive(n) ==
  \/ restartTimers[n] > 0
  \/ interval[n] # {}
  \/ \E g \in Gens : mpc[n][g] \in {"getAddress", "getBlock"}
  \/ \E f \in Flows : flow[n][f].pc # "idle"

SameTick(a, b) ==
  a.gen = b.gen /\ a.cur = b.cur /\ a.from = b.from

\* C9: a failure inside transferToken ends the call with the failure result
\* and nothing else: the flow that called it goes on to await the return
\* with its loop position unchanged, processedTxs, the checkpoint, the
\* timers and the call counts are untouched; a callback resumed after a
\* failed sweep takes the next entry of its batch, or past the last entry
\* writes its currentBlock to the checkpoint; the custom pass takes its next
\* token or returns
C9_SweepFailureContained ==
  [][\A n \in NetworkNames, f \in Flows :
       LET a == flow[n][f]
           b == flow'[n][f] IN
       /\ ( a.pc \in Sweeping /\ b # a ) =>
            /\ b.pc \in Sweeping \cup {"ret"}
            /\ SameTick(a, b) /\ b.idx = a.idx
            /\ b.pc = "ret" =>
                 /\ b.res.reported => b.res.result = FALSE
                 /\ processedTxs' = processedTxs
                 /\ lastCheckedBlock' = lastCheckedBlock
                 /\ sweepCalls' = sweepCalls
                 /\ restartTimers' = restartTimers
                 /\ interval' = interval
                 /\ mpc' = mpc /\ fatalLog' = fatalLog
       /\ ( a.pc = "ret" /\ a.res.reported /\ b # a /\ f # 0 ) =>
            IF a.idx < Len(Batch(a))
              THEN /\ b.pc \in {"details", "ret"}
                   /\ b.idx = a.idx + 1
                   /\ SameTick(a, b)
              ELSE /\ b = Idle
                   /\ lastCheckedBlock'[n][a.gen] = a.cur
       /\ ( a.pc = "ret" /\ a.res.reported /\ b # a /\ f = 0 ) =>
            IF a.idx < Len(customTokenAddresses)
              THEN b.pc = "details" /\ b.idx = a.idx + 1
              ELSE b = Idle /\ mpc'[n][a.gen] = "returned"]_vars

\* a sweep failed in a batch that has a further entry, whose transaction
\* stays marked
C9_Witness ==
  \E n \in NetworkNames, s \in Slots :
    LET fl == flow[n][s] IN
      /\ fl.pc = "ret" /\ fl.res.reported
      /\ fl.idx < Len(Batch(fl))
      /\ Entry(fl).transactionHash \in processedTxs[n][fl.gen]

Default == [symbol |-> "UNKNOWN", decimals |-> DefaultDecimals,
            name |-> "Unknown Token"]

\* C10: getTokenDetails always returns, and when its three lookups were
\* made each field is the looked-up value if that lookup succeeded and its
\* default if it failed, whatever the other two lookups did
C10_FieldsFallBackIndependently ==
  details # NoDetails =>
    /\ details \in [symbol : STRING, decimals : Nat, name : STRING]
    /\ lookup.ctor =>
         /\ details.symbol =
              IF lookup.symbol.ok THEN lookup.symbol.val ELSE Default.symbol
         /\ details.decimals =
              IF lookup.decimals.ok THEN lookup.decimals.val ELSE Default.decimals
         /\ details.name =
              IF lookup.name.ok THEN lookup.name.val ELSE Default.name

\* symbol failed, decimals and name succeeded
C10_Witness ==
  /\ lookup.ctor /\ ~lookup.symbol.ok
  /\ lookup.decimals.ok /\ lookup.name.ok
  /\ details.symbol = "UNKNOWN"
  /\ details.decimals = 6
  /\ details.name = "Tether USD"

\* the block heights of the range a callback queries
Range(fl) == fl.from .. fl.cur

\* C11: a callback issues a log query only when the height it read exceeds
\* the checkpoint, for the heights from the checkpoint plus one to that
\* height, and no height of a log query that succeeds was inside an earlier
\* successful log query of the same monitor
C11_RangesDisjoint ==
  [][\A n \in NetworkNames, s \in Slots :
       /\ (TickBlockOk(n, s) /\ flow'[n][s].pc = "getLogs") =>
            /\ height[n] > lastCheckedBlock[n][flow[n][s].gen]
            /\ flow'[n][s].from = lastCheckedBlock[n][flow[n][s].gen] + 1
            /\ flow'[n][s].cur = height[n]
       /\ TickLogsOk(n, s) =>
            Range(flow[n][s]) \cap polled[n][flow[n][s].gen] = {}]_vars

\* everything monitorAndTransfer(n) and its callbacks hold
NetState(n) ==
  << mpc[n], started[n], restartTimers[n], interval[n], lastCheckedBlock[n],
     processedTxs[n], flow[n], sweepCalls[n], fatalLog[n], retry[n],
     polled[n], firstBlock[n], passLog[n], sweptLogs[n] >>

\* C12: a step of one network's monitor (any step but main's own) changes
\* nothing another network's monitor holds: its checkpoint, its
\* processedTxs, its timers, its callbacks; and whatever state the other
\* monitors are in, an installed interval with a free callback slot can
\* fire, a callback whose getBlockNumber or getLogs is pending can resume
C12_NetworksIndependent ==
  /\ [][\A a, b \in NetworkNames :
          (a # b /\ mainPc' = mainPc /\ NetState(a)' # NetState(a)) =>
             NetState(b)' = NetState(b)]_vars
  /\ [](\A b \in NetworkNames :
          ~Exited =>
            /\ \A g \in interval[b] :
                 FreeSlots(b) # {} => ENABLED TickFire(b, g)
            /\ \A s \in Slots :
                 /\ flow[b][s].pc = "getBlock" => ENABLED TickBlockOk(b, s)
                 /\ flow[b][s].pc = "getLogs" => ENABLED TickLogsOk(b, s))

\* C12 witness: one network's first getBlockNumber is still pending while
\* the other network's monitor has polled block 1 and moved its checkpoint
C12_Witness ==
  \E a, b \in NetworkNames :
    /\ a # b
    /\ mpc[a][1] = "getBlock"
    /\ firstBlock[b][1] = 0
    /\ polled[b][1] = {1}
    /\ lastCheckedBlock[b][1] = 1

\* callbacks of network n past their getBlockNumber and not yet finished
PastBlockQuery(n) ==
  {s \in Slots : flow[n][s].pc \notin {"idle", "getBlock"}}

\* flows of network n inside transferToken
InTransfer(n) == {f \in Flows : flow[n][f].pc \in Sweeping}

\* C13: at no time are two callbacks of one network both past their
\* getBlockNumber call and unfinished, and at no time are two transferToken
\* executions of one network in progress
C13_OneBatchAtATime ==
  \A n \in NetworkNames :
    /\ Cardinality(PastBlockQuery(n)) <= 1
    /\ Cardinality(InTransfer(n)) <= 1

\* the custom pass of network n has a token it has not finished sweeping
PassRunning(n) == \E g \in Gens : mpc[n][g] = "custom"

\* C14: while the custom-token pass has a token left, no interval callback
\* of that network has queried the height, queried logs or handled an entry
C14_PassBeforeMonitoring ==
  \A n \in NetworkNames :
    PassRunning(n) => \A s \in Slots : flow[n][s].pc = "idle"

\* the transaction ids marked by a step
NewlyMarked(n, g) == processedTxs'[n][g] \ processedTxs[n][g]

\* C15: per interval callback an entry that passes the duplicate check goes
\* through mark, getTokenDetails, settling delay, transferToken in that
\* order: getTokenDetails is entered only with the entry's transaction
\* marked in that same step, it is followed by the delay and nothing else,
\* transferToken is entered only from the completed delay, and the loop
\* position moves only by one, from the query result to entry 1 or from the
\* returned handler of entry i to entry i + 1
C15_HandlerOrder ==
  [][\A n \in NetworkNames, s \in Slots :
       LET a == flow[n][s]
           b == flow'[n][s]
       IN  a # b =>
             /\ (b.pc = "details") =>
                  /\ a.pc \in {"getLogs", "ret"}
                  /\ NewlyMarked(n, b.gen) = {Entry(b).transactionHash}
             /\ (a.pc = "details") => (b.pc = "delay" /\ b.idx = a.idx)
             /\ (b.pc = "delay") => a.pc = "details"
             /\ (a.pc = "delay") =>
                  /\ b.pc = "balance" /\ b.idx = a.idx
                  /\ sweptLogs'[n][a.gen] = sweptLogs[n][a.gen] \cup {Entry(a)}
             /\ (b.pc \in Sweeping /\ a.pc \notin Sweeping) => a.pc = "delay"
             /\ (a.pc \in Sweeping) =>
                  (b.pc \in Sweeping \cup {"ret"} /\ b.idx = a.idx)
             /\ (a.pc # "delay") => sweptLogs'[n] = sweptLogs[n]
             /\ (b.pc # "idle" /\ b.idx # a.idx) =>
                  /\ a.pc \in {"getLogs", "ret"}
                  /\ b.idx = a.idx + 1]_vars

\* C15 witness: a callback is inside transferToken for the third entry of
\* its batch after its own first entry went through delay and sweep
C15_Witness ==
  \E n \in NetworkNames, s \in Slots :
    /\ flow[n][s].pc \in Sweeping
    /\ flow[n][s].idx = 3
    /\ flow[n][s].from = 1
    /\ Batch(flow[n][s])[1] \in sweptLogs[n][flow[n][s].gen]

\* the first k elements of a sequence
Prefix(q, k) == [i \in 1..k |-> q[i]]

\* C16: the custom pass calls getTokenDetails, then transferToken, once per
\* listed token in list order: the calls made so far are the list up to the
\* token the pass is at, a finished pass has made the call for every token,
\* the pass moves to token k + 1 only from the returned sweep of token k,
\* whatever that sweep returned, and no step of the pass after its start
\* changes processedTxs, lastCheckedBlock or the handler's calls
C16_PassSequential ==
  /\ [](\A n \in NetworkNames, g \in Gens :
          LET fl == flow[n][0] IN
          /\ mpc[n][g] \in {"unborn", "getAddress", "getBlock", "failed",
                            "terminal"} => passLog[n][g] = << >>
          /\ mpc[n][g] = "returned" => passLog[n][g] = customTokenAddresses
          /\ mpc[n][g] = "custom" =>
               /\ fl.gen = g /\ fl.idx \in 1..Len(customTokenAddresses)
               /\ fl.pc \in {"details"} \cup Sweeping \cup {"ret"}
               /\ passLog[n][g] =
                    Prefix(customTokenAddresses,
                           IF fl.pc = "details" THEN fl.idx - 1 ELSE fl.idx))
  /\ [][\A n \in NetworkNames :
          LET a == flow[n][0]
              b == flow'[n][0]
          IN  (a # b /\ a.pc # "idle") =>
                /\ (a.pc = "details") => (b.pc = "balance" /\ b.idx = a.idx)
                /\ (a.pc \in Sweeping) =>
                     (b.pc \in Sweeping \cup {"ret"} /\ b.idx = a.idx)
                /\ (a.pc = "ret") =>
                     IF a.idx < Len(customTokenAddresses)
                       THEN b.pc = "details" /\ b.idx = a.idx + 1
                       ELSE b.pc = "idle"
                /\ UNCHANGED << processedTxs, lastCheckedBlock, sweepCalls,
                                sweptLogs, interval, restartTimers >>]_vars

\* C16 witness: a pass over two listed tokens has returned
C16_Witness ==
  \E n \in NetworkNames, g \in Gens :
    /\ mpc[n][g] = "returned"
    /\ Len(customTokenAddresses) = 2
    /\ passLog[n][g] = << "0xaaa", "0xccc" >>

\* C17: once a network's polling interval is installed, no step (a failed
\* tick, handler, lookup or sweep, in a callback or in the custom pass)
\* schedules a restart, reports a fatal error, starts an invocation, ends
\* the invocation in the catch block or removes the interval; so the catch
\* block is entered only by an invocation without an interval
C17_FatalOnlyFromStarting ==
  [][\A n \in NetworkNames :
       /\ interval[n] # {} =>
            /\ interval[n] \subseteq interval'[n]
            /\ restartTimers'[n] = restartTimers[n]
            /\ fatalLog'[n] = fatalLog[n]
            /\ started'[n] = started[n]
            /\ \A g \in interval[n] : mpc'[n][g] \in {"custom", "returned"}
       /\ \A g \in Gens :
            (mpc'[n][g] \in {"failed", "terminal"} /\ mpc'[n][g] # mpc[n][g])
              => (g \notin interval[n] /\ g \notin interval'[n])]_vars

\* C17 witness: with the interval installed a tick has failed and a sweep
\* has ended in its catch
C17_Witness ==
  \E n \in NetworkNames :
    /\ interval[n] # {}
    /\ retry[n] # NoBlock
    /\ \E f \in Flows : flow[n][f].pc = "ret" /\ flow[n][f].res.reported

\* C18: a network holds at most one installed polling interval, whatever
\* number of invocations failed and restarted; while a restart is pending
\* or an invocation is before its height capture no interval is installed,
\* and an invocation that ended in the catch block never installed one
C18_OneIntervalPerNetwork ==
  \A n \in NetworkNames :
    /\ Cardinality(interval[n]) <= 1
    /\ restartTimers[n] > 0 => interval[n] = {}
    /\ \A g \in Gens :
         /\ mpc[n][g] \in {"unborn", "getAddress", "getBlock", "failed",
                           "terminal"} => g \notin interval[n]
         /\ mpc[n][g] \in {"getAddress", "getBlock"} => interval[n] = {}

\* C18 witness: the first invocation failed and the restarted one holds the
\* network's only interval
C18_Witness ==
  \E n \in NetworkNames :
    /\ mpc[n][1] = "failed"
    /\ interval[n] = {2}
    /\ \E s \in Slots : flow[n][s].pc # "idle"

\* C19: the checkpoint of an invocation is never below the height it
\* captured at start nor above the chain's height, and every height above
\* the captured one up to the checkpoint was inside a log query of that
\* invocation that succeeded
C19_NoBlockSkipped ==
  \A n \in NetworkNames, g \in Gens :
    IF mpc[n][g] \in {"custom", "returned"}
      THEN /\ firstBlock[n][g] \in Heights
           /\ firstBlock[n][g] <= lastCheckedBlock[n][g]
           /\ lastCheckedBlock[n][g] <= height[n]
           /\ (firstBlock[n][g] + 1) .. lastCheckedBlock[n][g]
                \subseteq polled[n][g]
      ELSE firstBlock[n][g] = NoBlock /\ polled[n][g] = {}

\* C19 witness: the checkpoint has moved two blocks past the captured
\* height while another callback is in flight
C19_Witness ==
  \E n \in NetworkNames, g \in Gens :
    /\ firstBlock[n][g] = 0
    /\ lastCheckedBlock[n][g] = 2
    /\ polled[n][g] = {1, 2}
    /\ \E s \in Slots : flow[n][s].pc # "idle"

\* an invocation that will not call transferToken again: it has returned,
\* none of its callbacks is in flight, the chain has stopped and the
\* checkpoint is at its height, so every later callback ends at line 141
Quiescent(n, g) ==
  /\ mpc[n][g] = "returned"
  /\ interval[n] = {g}
  /\ \A f \in Flows : flow[n][f].pc = "idle"
  /\ height[n] = chainEnd[n]
  /\ lastCheckedBlock[n][g] = height[n]

\* the tokens an invocation has called transferToken for
SweptTokens(n, g) ==
  {e.address : e \in sweptLogs[n][g]} \cup
  {passLog[n][g][i] : i \in 1..Len(passLog[n][g])}

\* the entries the successful log queries of an invocation returned
Delivered(n, g) ==
  UNION { {LogsAt(h)[i] : i \in 1..Len(LogsAt(h))} : h \in polled[n][g] }

\* C20: every entry a successful log query returned gets transferToken
\* called for its token, also when entries of one batch share a transaction
\* id: once an invocation can make no further call, the token of every
\* delivered entry is among those it called transferToken for
C20_EveryEntrySwept ==
  \A n \in NetworkNames, g \in Gens :
    Quiescent(n, g) =>
      \A e \in Delivered(n, g) : e.address \in SweptTokens(n, g)

====
